---- MODULE Spec2Model ----
(***************************************************************************)
(* The payment and deposit handlers of src/src/app.js over the ledger of   *)
(* profiles, contracts and jobs.  Every request runs in a request slot;    *)
(* each `await` of a handler is a step boundary, so the steps of two       *)
(* requests interleave exactly where the event loop lets them.             *)
(***************************************************************************)
EXTENDS Integers, FiniteSets, Sequences, TLC

\* ------------------------------------------------------------------ bounds
\* Number of requests served in one behaviour.
MaxInvocations == 2
\* Last value of the wall clock read by `new Date()`.
MaxTime == 2

\* ------------------------------------------------------------ the data set
Req == {"r1", "r2"}

ProfileIds == 1 .. 4
ContractIds == 1 .. 5
JobIds == 1 .. 6

\* ids a request may carry: the stored ones and one that names no row
RequesterIds == ProfileIds \cup {9}
JobParams == JobIds \cup {9}
ContractParams == ContractIds \cup {9}

\* req.query.start and req.query.end: absent, or a date
Dates == {<<>>} \cup {<<d>> : d \in 0 .. MaxTime}

NoProfile == [id |-> 0, type |-> "none", balance |-> 0, profession |-> "none"]
NoContract == [id |-> 0, ClientId |-> 0, ContractorId |-> 0, status |-> "none"]
NoJob == [id |-> 0, ContractId |-> 0, price |-> 0, paid |-> FALSE,
          paymentDate |-> <<>>, Contract |-> NoContract]

\* req.body.amount: a JSON number, a JSON string, or absent
Num(n) == [kind |-> "number", val |-> n]
NoAmount == [kind |-> "undefined", val |-> 0]
StrAmount == [kind |-> "string", val |-> 0]
Amounts == {NoAmount, StrAmount} \cup {Num(n) : n \in {-6, 0, 1, 4, 5}}

SeedProfiles ==
    (1 :> [id |-> 1, type |-> "client", balance |-> 5, profession |-> "Wizard"]) @@
    (2 :> [id |-> 2, type |-> "client", balance |-> 1, profession |-> "Hacker"]) @@
    (3 :> [id |-> 3, type |-> "contractor", balance |-> 2, profession |-> "Programmer"]) @@
    (4 :> [id |-> 4, type |-> "contractor", balance |-> 0, profession |-> "Musician"])

SeedContracts ==
    (1 :> [id |-> 1, ClientId |-> 1, ContractorId |-> 3, status |-> "terminated"]) @@
    (2 :> [id |-> 2, ClientId |-> 1, ContractorId |-> 3, status |-> "in_progress"]) @@
    (3 :> [id |-> 3, ClientId |-> 2, ContractorId |-> 4, status |-> "in_progress"]) @@
    (4 :> [id |-> 4, ClientId |-> 1, ContractorId |-> 4, status |-> "in_progress"]) @@
    (5 :> [id |-> 5, ClientId |-> 2, ContractorId |-> 3, status |-> "new"])

\* client 1 owes 4 + 5 + 7 under its in_progress contracts and can pay the
\* first two; client 2 owes nothing that is payable
SeedJobs ==
    (1 :> [id |-> 1, ContractId |-> 1, price |-> 2, paid |-> FALSE, paymentDate |-> <<>>]) @@
    (2 :> [id |-> 2, ContractId |-> 2, price |-> 4, paid |-> FALSE, paymentDate |-> <<>>]) @@
    (3 :> [id |-> 3, ContractId |-> 2, price |-> 5, paid |-> FALSE, paymentDate |-> <<>>]) @@
    (4 :> [id |-> 4, ContractId |-> 4, price |-> 7, paid |-> FALSE, paymentDate |-> <<>>]) @@
    (5 :> [id |-> 5, ContractId |-> 3, price |-> 4, paid |-> TRUE, paymentDate |-> <<0>>]) @@
    (6 :> [id |-> 6, ContractId |-> 5, price |-> 1, paid |-> FALSE, paymentDate |-> <<>>])

\* ------------------------------------------------------------------- state
VARIABLES
    profiles,   \* Profile table: id -> row
    contracts,  \* Contract table: id -> row
    jobs,       \* Job table: id -> row
    now,        \* the wall clock, as last read by new Date()
    started,    \* requests accepted so far
    pc,         \* per slot: the await the handler is suspended at
    req,        \* per slot: route and parameters of the request
    loc,        \* per slot: the handler's local constants
    res,        \* per slot: the response sent
    writes,     \* per slot: transactions this request has committed
    startPaid   \* per slot: was the target job paid when the request arrived

ledger == <<profiles, contracts, jobs>>
slots == <<pc, req, loc, res, writes, startPaid>>
vars == <<profiles, contracts, jobs, now, started, pc, req, loc, res, writes, startPaid>>

NoReq == [op |-> "none", profile_id |-> 0, job_id |-> 0, userId |-> 0, amount |-> NoAmount,
          id |-> 0, start |-> <<>>, end |-> <<>>]
NoLoc == [profile |-> NoProfile, job |-> NoJob, client |-> NoProfile,
          contractor |-> NoProfile, outstandingTotal |-> 0]
NoBest == [profession |-> "null", total |-> 0]
NoRes == [status |-> 0, job |-> NoJob, profile |-> NoProfile, list |-> {},
          contract |-> NoContract, best |-> NoBest]

Init ==
    /\ profiles = SeedProfiles
    /\ contracts = SeedContracts
    /\ jobs = SeedJobs
    /\ now = 1
    /\ started = 0
    /\ pc = [p \in Req |-> "idle"]
    /\ req = [p \in Req |-> NoReq]
    /\ loc = [p \in Req |-> NoLoc]
    /\ res = [p \in Req |-> NoRes]
    /\ writes = [p \in Req |-> 0]
    /\ startPaid = [p \in Req |-> FALSE]

\* ------------------------------------------------------------- store reads
\* Profile.findOne({where: {id}})
FindProfile(id) == IF id \in DOMAIN profiles THEN profiles[id] ELSE NoProfile

\* FindClientProfile without the filter on type
FindClientProfile_AnyType(id) == IF id \in DOMAIN profiles THEN profiles[id] ELSE NoProfile

\* Profile.findOne({where: {id, type: "client"}})
FindClientProfile(id) ==
    IF id \in DOMAIN profiles /\ profiles[id].type = "client" THEN profiles[id] ELSE NoProfile

\* a Job row with its Contract included (inner join)
WithContract(j) ==
    [id |-> j.id, ContractId |-> j.ContractId, price |-> j.price, paid |-> j.paid,
     paymentDate |-> j.paymentDate, Contract |-> contracts[j.ContractId]]

\* FindPayableJob without the filter on paid
FindPayableJob_AnyPaid(job_id, clientId) ==
    IF /\ job_id \in DOMAIN jobs
       /\ contracts[jobs[job_id].ContractId].status = "in_progress"
       /\ contracts[jobs[job_id].ContractId].ClientId = clientId
    THEN WithContract(jobs[job_id])
    ELSE NoJob

\* Job.findOne: id, paid is not true, Contract in_progress of this client
FindPayableJob(job_id, clientId) ==
    IF /\ job_id \in DOMAIN jobs
       /\ jobs[job_id].paid # TRUE
       /\ contracts[jobs[job_id].ContractId].status = "in_progress"
       /\ contracts[jobs[job_id].ContractId].ClientId = clientId
    THEN WithContract(jobs[job_id])
    ELSE NoJob

\* Job.findOne after the commit: id, Contract in_progress of this client
FindClientJob(job_id, clientId) ==
    IF /\ job_id \in DOMAIN jobs
       /\ contracts[jobs[job_id].ContractId].status = "in_progress"
       /\ contracts[jobs[job_id].ContractId].ClientId = clientId
    THEN WithContract(jobs[job_id])
    ELSE NoJob

\* Job.findAll: paid is not true, Contract in_progress of this client
FindOutstandingJobs(clientId) ==
    {WithContract(jobs[j]) : j \in
        {k \in DOMAIN jobs :
            /\ jobs[k].paid # TRUE
            /\ contracts[jobs[k].ContractId].status = "in_progress"
            /\ contracts[jobs[k].ContractId].ClientId = clientId}}

\* FindContracts without the filter on status
FindContracts_AnyStatus(profileId) ==
    {contracts[c] : c \in
        {k \in DOMAIN contracts :
            contracts[k].ClientId = profileId \/ contracts[k].ContractorId = profileId}}

\* Contract.findAll: a party is the requester, status is not terminated
FindContracts(profileId) ==
    {contracts[c] : c \in
        {k \in DOMAIN contracts :
            /\ (contracts[k].ClientId = profileId \/ contracts[k].ContractorId = profileId)
            /\ contracts[k].status # "terminated"}}

\* FindContract without the filter on the parties
FindContract_AnyParty(id, profileId) ==
    IF id \in DOMAIN contracts THEN contracts[id] ELSE NoContract

\* Contract.findOne: id, and a party is the requester
FindContract(id, profileId) ==
    IF /\ id \in DOMAIN contracts
       /\ (contracts[id].ClientId = profileId \/ contracts[id].ContractorId = profileId)
    THEN contracts[id]
    ELSE NoContract

\* FindUnpaidJobs without the filter on the contract's status
FindUnpaidJobs_AnyStatus(profileId) ==
    {WithContract(jobs[j]) : j \in
        {k \in DOMAIN jobs :
            /\ jobs[k].paid # TRUE
            /\ (\/ contracts[jobs[k].ContractId].ClientId = profileId
                \/ contracts[jobs[k].ContractId].ContractorId = profileId)}}

\* Job.findAll: paid is not true, Contract in_progress with the requester a party
FindUnpaidJobs(profileId) ==
    {WithContract(jobs[j]) : j \in
        {k \in DOMAIN jobs :
            /\ jobs[k].paid # TRUE
            /\ contracts[jobs[k].ContractId].status = "in_progress"
            /\ (\/ contracts[jobs[k].ContractId].ClientId = profileId
                \/ contracts[jobs[k].ContractId].ContractorId = profileId)}}

\* jobs.reduce((total, job) => total + job.price, 0)
RECURSIVE SumPrices(_)
SumPrices(S) ==
    IF S = {} THEN 0
    ELSE LET j == CHOOSE x \in S : TRUE IN j.price + SumPrices(S \ {j})

\* --------------------------------------------------------- handler helpers
\* middleware isClient
isClient(profile) == profile.type = "client"

\* InsufficientFunds with >= for >
InsufficientFunds_OrEqual(job, client) == job.price >= client.balance

\* job.price > client.balance
InsufficientFunds(job, client) == job.price > client.balance

\* BadAmount that only rejects an absent amount
BadAmount_OnlyUndefined(amount) == amount.kind = "undefined"

\* typeof amount === "undefined" || typeof amount !== "number"
BadAmount(amount) == amount.kind = "undefined" \/ amount.kind # "number"

\* OverAllowance against the whole total instead of a quarter of it
OverAllowance_Whole(amount, outstandingTotal) == amount > outstandingTotal

\* amount > outstandingTotal * 0.25, in quarters of a unit
OverAllowance(amount, outstandingTotal) == 4 * amount > outstandingTotal

Respond(p, r) ==
    /\ res' = [res EXCEPT ![p] = r]
    /\ pc' = [pc EXCEPT ![p] = "done"]

Status(code) == [NoRes EXCEPT !.status = code]

\* ------------------------------------------------- POST /jobs/:job_id/pay
\* balance: client.balance - job.price
Debited(client, job) == client.balance - job.price

\* balance: contractor.balance + job.price
Credited(contractor, job) == contractor.balance + job.price

\* the three updates of the transaction, as committed
PayProfiles(client, contractor, job) ==
    [[profiles EXCEPT ![client.id].balance = Debited(client, job)]
        EXCEPT ![contractor.id].balance = Credited(contractor, job)]

\* PayJobs that leaves the job unmarked
PayJobs_Unmarked(job_id, date) == jobs

\* PayJobs whose update has no where clause
PayJobs_AllRows(job_id, date) ==
    [k \in DOMAIN jobs |-> [jobs[k] EXCEPT !.paid = TRUE, !.paymentDate = <<date>>]]

PayJobs(job_id, date) ==
    [jobs EXCEPT ![job_id].paid = TRUE, ![job_id].paymentDate = <<date>>]

\* the request arrives; getProfile and isClient run before the handler
PayRequest(p) ==
    /\ pc[p] = "idle"
    /\ started < MaxInvocations
    /\ started' = started + 1
    /\ \E profile_id \in RequesterIds, job_id \in JobParams :
        /\ req' = [req EXCEPT ![p] = [NoReq EXCEPT !.op = "pay",
                        !.profile_id = profile_id, !.job_id = job_id]]
        /\ startPaid' = [startPaid EXCEPT ![p] = job_id \in DOMAIN jobs /\ jobs[job_id].paid]
        /\ LET profile == FindProfile(profile_id) IN
            IF profile = NoProfile \/ ~isClient(profile)
            THEN /\ Respond(p, Status(401))
                 /\ loc' = loc
            ELSE /\ loc' = [loc EXCEPT ![p] = [NoLoc EXCEPT !.profile = profile]]
                 /\ pc' = [pc EXCEPT ![p] = "pay_findJob"]
                 /\ res' = res
    /\ writes' = [writes EXCEPT ![p] = 0]
    /\ UNCHANGED <<ledger, now>>

\* const job = await Job.findOne(...); if (!job) return 404
PayFindJob(p) ==
    /\ pc[p] = "pay_findJob"
    /\ LET job == FindPayableJob(req[p].job_id, loc[p].profile.id) IN
        IF job = NoJob
        THEN /\ Respond(p, Status(404))
             /\ loc' = loc
        ELSE /\ loc' = [loc EXCEPT ![p].job = job]
             /\ pc' = [pc EXCEPT ![p] = "pay_findClient"]
             /\ res' = res
    /\ UNCHANGED <<ledger, now, started, req, writes, startPaid>>

\* const client = await Profile.findOne({where: {id: req.profile.id}})
PayFindClient(p) ==
    /\ pc[p] = "pay_findClient"
    /\ loc' = [loc EXCEPT ![p].client = FindProfile(loc[p].profile.id)]
    /\ pc' = [pc EXCEPT ![p] = "pay_findContractor"]
    /\ UNCHANGED <<ledger, now, started, req, res, writes, startPaid>>

\* PayFindContractor with the debit written before the funds check
PayFindContractor_DebitFirst(p) ==
    /\ pc[p] = "pay_findContractor"
    /\ loc' = [loc EXCEPT ![p].contractor = FindProfile(loc[p].job.Contract.ContractorId)]
    /\ profiles' = [profiles EXCEPT
            ![loc[p].client.id].balance = loc[p].client.balance - loc[p].job.price]
    /\ IF loc[p].job.price > loc[p].client.balance
       THEN Respond(p, Status(402))
       ELSE /\ pc' = [pc EXCEPT ![p] = "pay_tx"]
            /\ res' = res
    /\ UNCHANGED <<contracts, jobs, now, started, req, writes, startPaid>>

\* const contractor = await Profile.findOne(...); the funds check; begin
PayFindContractor(p) ==
    /\ pc[p] = "pay_findContractor"
    /\ loc' = [loc EXCEPT ![p].contractor = FindProfile(loc[p].job.Contract.ContractorId)]
    /\ IF InsufficientFunds(loc[p].job, loc[p].client)
       THEN Respond(p, Status(402))
       ELSE /\ pc' = [pc EXCEPT ![p] = "pay_tx"]
            /\ res' = res
    /\ UNCHANGED <<ledger, now, started, req, writes, startPaid>>

\* the three updates and t.commit(), made visible together by the store's
\* transaction; new Date() reads the clock, which has moved on by any amount
\* since it was last read
PayCommit(p) ==
    /\ pc[p] = "pay_tx"
    /\ \E date \in now .. MaxTime :
        /\ now' = date
        /\ jobs' = PayJobs(req[p].job_id, date)
    /\ profiles' = PayProfiles(loc[p].client, loc[p].contractor, loc[p].job)
    /\ writes' = [writes EXCEPT ![p] = @ + 1]
    /\ pc' = [pc EXCEPT ![p] = "pay_refetch"]
    /\ UNCHANGED <<contracts, started, req, loc, res, startPaid>>

\* PayRollback that leaves the debit behind
PayRollback_DebitKept(p) ==
    /\ pc[p] = "pay_tx"
    /\ Respond(p, Status(400))
    /\ profiles' = [profiles EXCEPT
            ![loc[p].client.id].balance = loc[p].client.balance - loc[p].job.price]
    /\ UNCHANGED <<contracts, jobs, now, started, req, loc, writes, startPaid>>

\* an update or the commit throws: t.rollback(), 400
PayRollback(p) ==
    /\ pc[p] = "pay_tx"
    /\ Respond(p, Status(400))
    /\ UNCHANGED <<ledger, now, started, req, loc, writes, startPaid>>

\* const newJob = await Job.findOne(...); res.json(newJob)
PayRefetch(p) ==
    /\ pc[p] = "pay_refetch"
    /\ Respond(p, [Status(200) EXCEPT
                    !.job = FindClientJob(req[p].job_id, loc[p].profile.id)])
    /\ UNCHANGED <<ledger, now, started, req, loc, writes, startPaid>>

\* ------------------------------------------- POST /balances/deposit/:userId
\* balance: client.balance + amount
Deposited(client, amount) == client.balance + amount.val

\* the request arrives; the two checks of the amount
DepositRequest(p) ==
    /\ pc[p] = "idle"
    /\ started < MaxInvocations
    /\ started' = started + 1
    /\ \E userId \in RequesterIds, amount \in Amounts :
        /\ req' = [req EXCEPT ![p] = [NoReq EXCEPT !.op = "deposit",
                        !.userId = userId, !.amount = amount]]
        /\ IF BadAmount(amount) THEN Respond(p, Status(400))
           ELSE IF amount.val = 0 THEN Respond(p, Status(204))
           ELSE /\ pc' = [pc EXCEPT ![p] = "dep_findClient"]
                /\ res' = res
    /\ loc' = [loc EXCEPT ![p] = NoLoc]
    /\ writes' = [writes EXCEPT ![p] = 0]
    /\ startPaid' = [startPaid EXCEPT ![p] = FALSE]
    /\ UNCHANGED <<ledger, now>>

\* const client = await Profile.findOne(...); if (!client) return 404
DepositFindClient(p) ==
    /\ pc[p] = "dep_findClient"
    /\ LET client == FindClientProfile(req[p].userId) IN
        IF client = NoProfile
        THEN /\ Respond(p, Status(404))
             /\ loc' = loc
        ELSE /\ loc' = [loc EXCEPT ![p].client = client]
             /\ pc' = [pc EXCEPT ![p] = "dep_findJobs"]
             /\ res' = res
    /\ UNCHANGED <<ledger, now, started, req, writes, startPaid>>

\* const jobs = await Job.findAll(...); the total, the two 403 checks; begin
DepositFindJobs(p) ==
    /\ pc[p] = "dep_findJobs"
    /\ LET outstandingTotal == SumPrices(FindOutstandingJobs(loc[p].client.id)) IN
        /\ loc' = [loc EXCEPT ![p].outstandingTotal = outstandingTotal]
        /\ IF outstandingTotal = 0 THEN Respond(p, Status(403))
           ELSE IF OverAllowance(req[p].amount.val, outstandingTotal)
           THEN Respond(p, Status(403))
           ELSE /\ pc' = [pc EXCEPT ![p] = "dep_tx"]
                /\ res' = res
    /\ UNCHANGED <<ledger, now, started, req, writes, startPaid>>

\* Profile.update(...) and t.commit()
DepositCommit(p) ==
    /\ pc[p] = "dep_tx"
    /\ profiles' = [profiles EXCEPT
            ![loc[p].client.id].balance = Deposited(loc[p].client, req[p].amount)]
    /\ writes' = [writes EXCEPT ![p] = @ + 1]
    /\ pc' = [pc EXCEPT ![p] = "dep_refetch"]
    /\ UNCHANGED <<contracts, jobs, now, started, req, loc, res, startPaid>>

\* the update or the commit throws: t.rollback(), 400
DepositRollback(p) ==
    /\ pc[p] = "dep_tx"
    /\ Respond(p, Status(400))
    /\ UNCHANGED <<ledger, now, started, req, loc, writes, startPaid>>

\* const newClient = await Profile.findOne(...); res.json(newClient)
DepositRefetch(p) ==
    /\ pc[p] = "dep_refetch"
    /\ Respond(p, [Status(200) EXCEPT !.profile = FindClientProfile(req[p].userId)])
    /\ UNCHANGED <<ledger, now, started, req, loc, writes, startPaid>>

\* ----------------------------------------------------------- GET /contracts
\* the request arrives; getProfile runs before the handler
ListContractsRequest(p) ==
    /\ pc[p] = "idle"
    /\ started < MaxInvocations
    /\ started' = started + 1
    /\ \E profile_id \in RequesterIds :
        /\ req' = [req EXCEPT ![p] = [NoReq EXCEPT !.op = "listContracts",
                        !.profile_id = profile_id]]
        /\ LET profile == FindProfile(profile_id) IN
            IF profile = NoProfile
            THEN /\ Respond(p, Status(401))
                 /\ loc' = [loc EXCEPT ![p] = NoLoc]
            ELSE /\ loc' = [loc EXCEPT ![p] = [NoLoc EXCEPT !.profile = profile]]
                 /\ pc' = [pc EXCEPT ![p] = "lc_findAll"]
                 /\ res' = res
    /\ writes' = [writes EXCEPT ![p] = 0]
    /\ startPaid' = [startPaid EXCEPT ![p] = FALSE]
    /\ UNCHANGED <<ledger, now>>

\* const contract = await Contract.findAll(...); res.json(contract)
ListContracts(p) ==
    /\ pc[p] = "lc_findAll"
    /\ Respond(p, [Status(200) EXCEPT !.list = FindContracts(loc[p].profile.id)])
    /\ UNCHANGED <<ledger, now, started, req, loc, writes, startPaid>>

\* ------------------------------------------------------- GET /contracts/:id
\* the request arrives; getProfile runs before the handler
GetContractRequest(p) ==
    /\ pc[p] = "idle"
    /\ started < MaxInvocations
    /\ started' = started + 1
    /\ \E profile_id \in RequesterIds, id \in ContractParams :
        /\ req' = [req EXCEPT ![p] = [NoReq EXCEPT !.op = "getContract",
                        !.profile_id = profile_id, !.id = id]]
        /\ LET profile == FindProfile(profile_id) IN
            IF profile = NoProfile
            THEN /\ Respond(p, Status(401))
                 /\ loc' = [loc EXCEPT ![p] = NoLoc]
            ELSE /\ loc' = [loc EXCEPT ![p] = [NoLoc EXCEPT !.profile = profile]]
                 /\ pc' = [pc EXCEPT ![p] = "gc_findOne"]
                 /\ res' = res
    /\ writes' = [writes EXCEPT ![p] = 0]
    /\ startPaid' = [startPaid EXCEPT ![p] = FALSE]
    /\ UNCHANGED <<ledger, now>>

\* const contract = await Contract.findOne(...); 404 or res.json(contract)
GetContract(p) ==
    /\ pc[p] = "gc_findOne"
    /\ LET contract == FindContract(req[p].id, loc[p].profile.id) IN
        IF contract = NoContract
        THEN Respond(p, Status(404))
        ELSE Respond(p, [Status(200) EXCEPT !.contract = contract])
    /\ UNCHANGED <<ledger, now, started, req, loc, writes, startPaid>>

\* ---------------------------------------------------------- GET /jobs/unpaid
\* the request arrives; getProfile runs before the handler
ListUnpaidJobsRequest(p) ==
    /\ pc[p] = "idle"
    /\ started < MaxInvocations
    /\ started' = started + 1
    /\ \E profile_id \in RequesterIds :
        /\ req' = [req EXCEPT ![p] = [NoReq EXCEPT !.op = "listUnpaidJobs",
                        !.profile_id = profile_id]]
        /\ LET profile == FindProfile(profile_id) IN
            IF profile = NoProfile
            THEN /\ Respond(p, Status(401))
                 /\ loc' = [loc EXCEPT ![p] = NoLoc]
            ELSE /\ loc' = [loc EXCEPT ![p] = [NoLoc EXCEPT !.profile = profile]]
                 /\ pc' = [pc EXCEPT ![p] = "uj_findAll"]
                 /\ res' = res
    /\ writes' = [writes EXCEPT ![p] = 0]
    /\ startPaid' = [startPaid EXCEPT ![p] = FALSE]
    /\ UNCHANGED <<ledger, now>>

\* const jobs = await Job.findAll(...); res.json(jobs)
ListUnpaidJobs(p) ==
    /\ pc[p] = "uj_findAll"
    /\ Respond(p, [Status(200) EXCEPT !.list = FindUnpaidJobs(loc[p].profile.id)])
    /\ UNCHANGED <<ledger, now, started, req, loc, writes, startPaid>>

\* -------------------------------------------------- GET /admin/best-profession
\* WHERE paid = true AND jobs.paymentDate BETWEEN :start AND :end
PaidBetween(start, end) ==
    {j \in DOMAIN jobs :
        /\ jobs[j].paid = TRUE
        /\ jobs[j].paymentDate # <<>>
        /\ start[1] <= jobs[j].paymentDate[1]
        /\ jobs[j].paymentDate[1] <= end[1]}

\* LEFT JOIN contracts, LEFT JOIN profiles: profiles.profession of the job
ProfessionOf(j) == profiles[contracts[jobs[j].ContractId].ContractorId].profession

\* SUM(price) over a set of jobs
RECURSIVE TotalPrice(_)
TotalPrice(J) ==
    IF J = {} THEN 0
    ELSE LET j == CHOOSE x \in J : TRUE IN jobs[j].price + TotalPrice(J \ {j})

\* GROUP BY profiles.profession: one row per profession
GroupRows(J) ==
    {[profession |-> g, total |-> TotalPrice({j \in J : ProfessionOf(j) = g})] :
        g \in {ProfessionOf(j) : j \in J}}

\* TopRows ordered by total ASC
TopRows_Ascending(rows) == {r \in rows : \A o \in rows : o.total >= r.total}

\* ORDER BY total DESC LIMIT 1: the rows that may come first
TopRows(rows) == {r \in rows : \A o \in rows : o.total <= r.total}

\* the request arrives; if (!start || !end) return 400
BestProfessionRequest(p) ==
    /\ pc[p] = "idle"
    /\ started < MaxInvocations
    /\ started' = started + 1
    /\ \E start \in Dates, end \in Dates :
        /\ req' = [req EXCEPT ![p] = [NoReq EXCEPT !.op = "bestProfession",
                        !.start = start, !.end = end]]
        /\ IF start = <<>> \/ end = <<>>
           THEN Respond(p, Status(400))
           ELSE /\ pc' = [pc EXCEPT ![p] = "bp_query"]
                /\ res' = res
    /\ loc' = [loc EXCEPT ![p] = NoLoc]
    /\ writes' = [writes EXCEPT ![p] = 0]
    /\ startPaid' = [startPaid EXCEPT ![p] = FALSE]
    /\ UNCHANGED <<ledger, now>>

\* const [results] = await sequelize.query(...); {profession: null} or results[0]
BestProfession(p) ==
    /\ pc[p] = "bp_query"
    /\ LET results == TopRows(GroupRows(PaidBetween(req[p].start, req[p].end))) IN
        IF results = {}
        THEN Respond(p, [Status(200) EXCEPT !.best = NoBest])
        ELSE \E row \in results : Respond(p, [Status(200) EXCEPT !.best = row])
    /\ UNCHANGED <<ledger, now, started, req, loc, writes, startPaid>>

\* ------------------------------------------------------------- environment
\* the response has been sent and the slot serves the next request
Finish(p) ==
    /\ pc[p] = "done"
    /\ pc' = [pc EXCEPT ![p] = "idle"]
    /\ req' = [req EXCEPT ![p] = NoReq]
    /\ loc' = [loc EXCEPT ![p] = NoLoc]
    /\ res' = [res EXCEPT ![p] = NoRes]
    /\ writes' = [writes EXCEPT ![p] = 0]
    /\ startPaid' = [startPaid EXCEPT ![p] = FALSE]
    /\ UNCHANGED <<ledger, now, started>>

Next ==
    \/ \E p \in Req : PayRequest(p)
    \/ \E p \in Req : PayFindJob(p)
    \/ \E p \in Req : PayFindClient(p)
    \/ \E p \in Req : PayFindContractor(p)
    \/ \E p \in Req : PayCommit(p)
    \/ \E p \in Req : PayRollback(p)
    \/ \E p \in Req : PayRefetch(p)
    \/ \E p \in Req : DepositRequest(p)
    \/ \E p \in Req : DepositFindClient(p)
    \/ \E p \in Req : DepositFindJobs(p)
    \/ \E p \in Req : DepositCommit(p)
    \/ \E p \in Req : DepositRollback(p)
    \/ \E p \in Req : DepositRefetch(p)
    \/ \E p \in Req : ListContractsRequest(p)
    \/ \E p \in Req : ListContracts(p)
    \/ \E p \in Req : GetContractRequest(p)
    \/ \E p \in Req : GetContract(p)
    \/ \E p \in Req : ListUnpaidJobsRequest(p)
    \/ \E p \in Req : ListUnpaidJobs(p)
    \/ \E p \in Req : BestProfessionRequest(p)
    \/ \E p \in Req : BestProfession(p)
    \/ \E p \in Req : Finish(p)

Spec == Init /\ [][Next]_vars

\* ================================================================== claims
\* What the claims say, stated over the tables and not through the handlers'
\* own lookups.
Party(j) == contracts[jobs[j].ContractId]

IsClientId(id) == id \in ProfileIds /\ profiles[id].type = "client"

\* the job may be paid by this requester
Payable(j, requester) ==
    /\ j \in JobIds
    /\ ~jobs[j].paid
    /\ Party(j).status = "in_progress"
    /\ Party(j).ClientId = requester

\* slot p's handler moves in this step
Moves(p) == pc'[p] # pc[p]

PayCommits(p) == pc[p] = "pay_tx" /\ pc'[p] = "pay_refetch"
DepositCommits(p) == pc[p] = "dep_tx" /\ pc'[p] = "dep_refetch"

PayRejections == {401, 402, 404}

\* C1: every committed payment of a job of price p leaves the client's
\* balance p lower and the contractor's balance p higher than they were
\* right before the commit, so the sum of the two is unchanged.
C1_Conservation ==
    [][\A p \in Req : PayCommits(p) =>
        LET j == req[p].job_id
            c == Party(j).ClientId
            k == Party(j).ContractorId
        IN /\ profiles'[c].balance = profiles[c].balance - jobs[j].price
           /\ profiles'[k].balance = profiles[k].balance + jobs[j].price
           /\ profiles'[c].balance + profiles'[k].balance
                = profiles[c].balance + profiles[k].balance]_vars

\* C2: no profile ever has a negative balance.
C2_NonNegative == \A i \in ProfileIds : profiles[i].balance >= 0

\* C3: a payJob answered 401, 402 or 404 has committed nothing, and the step
\* that answers so leaves every balance and every job as it was.
C3_NoEffectsOnRejection ==
    /\ [](\A p \in Req :
            req[p].op = "pay" /\ res[p].status \in PayRejections => writes[p] = 0)
    /\ [][\A p \in Req :
            (Moves(p) /\ req'[p].op = "pay" /\ res'[p].status \in PayRejections)
                => (profiles' = profiles /\ jobs' = jobs)]_vars

\* a payment was refused for lack of funds while the ledger had already moved
C3_Witness ==
    \E p \in Req :
        /\ req[p].op = "pay" /\ res[p].status = 402
        /\ profiles # SeedProfiles

\* C4: payJob answers by the first failing precondition: 401 when the
\* requester is no client; else 404 when the job is not payable by the
\* requester at the lookup; else 402 when the balance read is below the
\* price; otherwise the payment is attempted, a balance equal to the price
\* being enough.
C4_PreconditionOrder ==
    [][\A p \in Req : (Moves(p) /\ req'[p].op = "pay") =>
        LET r == req'[p] IN
        CASE pc[p] = "idle" ->
                IF ~IsClientId(r.profile_id)
                THEN res'[p].status = 401
                ELSE pc'[p] = "pay_findJob"
          [] pc[p] = "pay_findJob" ->
                IF ~Payable(r.job_id, r.profile_id)
                THEN res'[p].status = 404
                ELSE pc'[p] = "pay_findClient"
          [] pc[p] = "pay_findClient" ->
                /\ pc'[p] = "pay_findContractor"
                /\ loc'[p].client.balance = profiles[r.profile_id].balance
          [] pc[p] = "pay_findContractor" ->
                IF loc[p].client.balance < jobs[r.job_id].price
                THEN res'[p].status = 402
                ELSE pc'[p] = "pay_tx"
          [] OTHER -> TRUE]_vars

\* a payment committed by a client whose balance read equalled the price
C4_Witness ==
    \E p \in Req :
        /\ pc[p] = "pay_refetch"
        /\ loc[p].client.balance = jobs[req[p].job_id].price

\* C5 as claimed: a paid job has a payment date, and every payJob that
\* arrives once the job is paid is answered 404 and commits nothing.
C5_PaidNotPayable_AsClaimed ==
    /\ \A j \in JobIds : jobs[j].paid => jobs[j].paymentDate # <<>>
    /\ \A p \in Req :
        (req[p].op = "pay" /\ startPaid[p] /\ pc[p] = "done")
            => (res[p].status = 404 /\ writes[p] = 0)

\* C5 as amended: a paid job has a payment date, and every payJob that
\* arrives once the job is paid stops at the role check or at the job lookup,
\* answered 404 to a client and 401 to anyone else, and commits nothing.
C5_PaidNotPayable ==
    /\ \A j \in JobIds : jobs[j].paid => jobs[j].paymentDate # <<>>
    /\ \A p \in Req :
        (req[p].op = "pay" /\ startPaid[p]) =>
            /\ writes[p] = 0
            /\ pc[p] \in {"pay_findJob", "done"}
            /\ pc[p] = "done" =>
                res[p].status = IF IsClientId(req[p].profile_id) THEN 404 ELSE 401

\* the owner asks again for a job that a payJob of this run has paid
C5_Witness ==
    \E p \in Req :
        /\ req[p].op = "pay" /\ startPaid[p] /\ res[p].status = 404
        /\ Party(req[p].job_id).ClientId = req[p].profile_id
        /\ jobs[req[p].job_id].paymentDate # SeedJobs[req[p].job_id].paymentDate

\* the sum of the prices of the jobs 1 .. n that client c still has to pay
RECURSIVE OwedUpTo(_, _)
OwedUpTo(n, c) ==
    IF n = 0 THEN 0
    ELSE (IF Payable(n, c) THEN jobs[n].price ELSE 0) + OwedUpTo(n - 1, c)

\* outstandingTotal of client c in the current ledger
OutstandingTotal(c) == OwedUpTo(Cardinality(JobIds), c)

NonZeroNumber(amount) == amount.kind = "number" /\ amount.val # 0

\* C6: the total a deposit reads is the sum of the prices of the target's
\* unpaid jobs under in_progress contracts at that moment; an amount with
\* 4 x amount above it is answered 403 and changes no balance; so every
\* deposit that commits has 4 x amount <= the total it read.
C6_DepositCap ==
    /\ [](\A p \in Req :
            /\ (req[p].op = "deposit" /\ pc[p] \in {"dep_tx", "dep_refetch"})
                    => 4 * req[p].amount.val <= loc[p].outstandingTotal
            /\ (req[p].op = "deposit" /\ writes[p] > 0)
                    => 4 * req[p].amount.val <= loc[p].outstandingTotal
            /\ (req[p].op = "deposit" /\ res[p].status = 403) => writes[p] = 0)
    /\ [][\A p \in Req : (Moves(p) /\ pc[p] = "dep_findJobs") =>
            LET total == OutstandingTotal(req[p].userId) IN
            /\ loc'[p].outstandingTotal = total
            /\ 4 * req[p].amount.val > total =>
                    (res'[p].status = 403 /\ profiles' = profiles /\ jobs' = jobs)]_vars

\* a deposit of exactly a quarter of the total has committed
C6_Witness ==
    \E p \in Req :
        /\ req[p].op = "deposit" /\ writes[p] = 1
        /\ 4 * req[p].amount.val = loc[p].outstandingTotal
        /\ profiles[req[p].userId].balance # SeedProfiles[req[p].userId].balance

\* C7: a deposit of amount 0 is answered 204 whatever the target, an absent
\* or non-numeric amount is answered 400, and neither changes the ledger.
C7_ZeroDeposit ==
    /\ [](\A p \in Req : req[p].op = "deposit" =>
            /\ req[p].amount = Num(0) => (res[p].status = 204 /\ writes[p] = 0)
            /\ req[p].amount.kind # "number" => (res[p].status = 400 /\ writes[p] = 0))
    /\ [][\A p \in Req :
            (/\ Moves(p)
             /\ req'[p].op = "deposit"
             /\ ~NonZeroNumber(req'[p].amount)) => ledger' = ledger]_vars

\* a deposit of 0 to an id that names no profile was answered 204
C7_Witness ==
    \E p \in Req :
        /\ req[p].op = "deposit" /\ req[p].amount = Num(0)
        /\ req[p].userId \notin ProfileIds
        /\ res[p].status = 204

\* C8: a committing deposit leaves the target's stored balance at what it was
\* right before the commit plus the amount, whatever committed since the
\* deposit read the balance.
C8_ExactDeposit ==
    [][\A p \in Req : DepositCommits(p) =>
        profiles'[req[p].userId].balance
            = profiles[req[p].userId].balance + req[p].amount.val]_vars

\* C9: a deposit of a non-zero number is answered 404 when the target is no
\* stored client and 403 when the target owes nothing, and commits nothing.
C9_DepositRejections ==
    /\ [](\A p \in Req :
            (req[p].op = "deposit" /\ res[p].status \in {403, 404}) => writes[p] = 0)
    /\ [][\A p \in Req :
            (Moves(p) /\ req'[p].op = "deposit" /\ NonZeroNumber(req'[p].amount)) =>
                /\ pc[p] = "idle" => pc'[p] = "dep_findClient"
                /\ pc[p] = "dep_findClient" =>
                    IF ~IsClientId(req[p].userId)
                    THEN res'[p].status = 404 /\ ledger' = ledger
                    ELSE pc'[p] = "dep_findJobs"
                /\ (pc[p] = "dep_findJobs" /\ OutstandingTotal(req[p].userId) = 0) =>
                    (res'[p].status = 403 /\ ledger' = ledger)]_vars

\* a client that owes nothing was answered 403 and a contractor 404
C9_Witness ==
    \E p, q \in Req :
        /\ req[p].op = "deposit" /\ res[p].status = 403
        /\ NonZeroNumber(req[p].amount)
        /\ IsClientId(req[p].userId)
        /\ loc[p].outstandingTotal = 0
        /\ req[q].op = "deposit" /\ res[q].status = 404
        /\ req[q].userId \in ProfileIds

\* C10: listContracts answers an existing requester with exactly the
\* contracts it is a party of that are not terminated.
C10_ListContracts ==
    \A p \in Req : (req[p].op = "listContracts" /\ pc[p] = "done") =>
        IF req[p].profile_id \in ProfileIds
        THEN /\ res[p].status = 200
             /\ \A x \in res[p].list : x.id \in ContractIds /\ x = contracts[x.id]
             /\ \A c \in ContractIds :
                    contracts[c] \in res[p].list <=>
                        /\ req[p].profile_id \in
                                {contracts[c].ClientId, contracts[c].ContractorId}
                        /\ contracts[c].status # "terminated"
        ELSE res[p].status = 401 /\ res[p].list = {}

\* a party of a terminated contract was listed its other contracts
C10_Witness ==
    \E p \in Req :
        /\ req[p].op = "listContracts" /\ res[p].status = 200
        /\ res[p].list # {}
        /\ \E c \in ContractIds :
            /\ contracts[c].status = "terminated"
            /\ contracts[c].ClientId = req[p].profile_id

\* C11: getContract answers an existing requester with the contract when the
\* contract exists and the requester is its client or its contractor, and
\* with one and the same 404 otherwise, whether the contract is missing or is
\* a contract of other parties.
C11_GetContract ==
    \A p \in Req : (req[p].op = "getContract" /\ pc[p] = "done") =>
        IF req[p].profile_id \notin ProfileIds THEN res[p].status = 401
        ELSE IF /\ req[p].id \in ContractIds
                /\ req[p].profile_id \in
                        {contracts[req[p].id].ClientId, contracts[req[p].id].ContractorId}
        THEN res[p].status = 200 /\ res[p].contract = contracts[req[p].id]
        ELSE /\ res[p].status = 404
             /\ res[p].contract = NoContract
             /\ \A q \in Req :
                    (req[q].op = "getContract" /\ res[q].status = 404) => res[q] = res[p]

\* one requester asked for a missing contract, another for a contract of
\* other parties, and both were answered
C11_Witness ==
    \E p, q \in Req :
        /\ req[p].op = "getContract" /\ req[p].id \notin ContractIds
        /\ res[p].status = 404
        /\ req[q].op = "getContract" /\ req[q].id \in ContractIds
        /\ req[q].profile_id \in ProfileIds
        /\ res[q].status = 404

\* job j is unpaid work under an in_progress contract of this profile
UnpaidFor(j, requester) ==
    /\ ~jobs[j].paid
    /\ Party(j).status = "in_progress"
    /\ requester \in {Party(j).ClientId, Party(j).ContractorId}

\* C12: listUnpaidJobs answers with exactly the jobs that, when it reads, are
\* not paid and under an in_progress contract the requester is a party of;
\* so no paid job, no job of a terminated or new contract, no job of other
\* parties, and no job a payJob has already marked paid.
C12_ListUnpaidJobs ==
    [][\A p \in Req : (Moves(p) /\ pc[p] = "uj_findAll") =>
        /\ res'[p].status = 200
        /\ \A x \in res'[p].list :
                /\ x.id \in JobIds
                /\ x.price = jobs[x.id].price /\ x.paid = jobs[x.id].paid
                /\ x.Contract = Party(x.id)
        /\ \A j \in JobIds :
                (\E x \in res'[p].list : x.id = j) <=> UnpaidFor(j, req[p].profile_id)]_vars

\* a party was listed its unpaid jobs without the one a payJob of this run
\* had paid
C12_Witness ==
    \E p \in Req :
        /\ req[p].op = "listUnpaidJobs" /\ res[p].status = 200
        /\ res[p].list # {}
        /\ \E j \in JobIds :
            /\ jobs[j].paid /\ jobs[j].paymentDate # SeedJobs[j].paymentDate
            /\ req[p].profile_id \in {Party(j).ClientId, Party(j).ContractorId}
            /\ \A x \in res[p].list : x.id # j

\* job j is paid with a payment date in [start, end]
InWindow(j, start, end) ==
    /\ jobs[j].paid
    /\ jobs[j].paymentDate # <<>>
    /\ start[1] <= jobs[j].paymentDate[1] /\ jobs[j].paymentDate[1] <= end[1]

\* what the contractors of profession g were paid for the jobs 1 .. n in the window
RECURSIVE EarnedUpTo(_, _, _, _)
EarnedUpTo(n, g, start, end) ==
    IF n = 0 THEN 0
    ELSE (IF InWindow(n, start, end) /\ profiles[Party(n).ContractorId].profession = g
          THEN jobs[n].price ELSE 0) + EarnedUpTo(n - 1, g, start, end)

Earned(g, start, end) == EarnedUpTo(Cardinality(JobIds), g, start, end)

Professions == {profiles[i].profession : i \in ProfileIds}

\* C13: bestProfession answers 400 when start or end is missing; otherwise it
\* answers 200 with a profession that earned the most over the paid jobs of
\* the window, and with profession null when the window holds no paid job;
\* no step of it changes the ledger.
C13_BestProfession ==
    /\ [](\A p \in Req :
            (req[p].op = "bestProfession" /\ (req[p].start = <<>> \/ req[p].end = <<>>))
                => res[p].status = 400)
    /\ [][\A p \in Req : (Moves(p) /\ req'[p].op = "bestProfession") => ledger' = ledger]_vars
    /\ [][\A p \in Req : (Moves(p) /\ pc[p] = "bp_query") =>
            LET start == req[p].start
                end == req[p].end
                best == res'[p].best
            IN /\ res'[p].status = 200
               /\ IF \A j \in JobIds : ~InWindow(j, start, end)
                  THEN best = NoBest
                  ELSE /\ best.profession \in Professions
                       /\ best.total = Earned(best.profession, start, end)
                       /\ \E j \in JobIds :
                            /\ InWindow(j, start, end)
                            /\ profiles[Party(j).ContractorId].profession = best.profession
                       /\ \A g \in Professions :
                            Earned(g, start, end) <= best.total]_vars

\* over a window that holds the seed's paid job and a job paid in this run,
\* two professions earned the same and one of them was answered
C13_Witness ==
    \E p \in Req :
        /\ req[p].op = "bestProfession" /\ res[p].status = 200
        /\ req[p].start = <<0>>
        /\ res[p].best = [profession |-> "Programmer", total |-> 4]
        /\ Earned("Musician", req[p].start, req[p].end) = 4

\* the sum of the balances of the profiles 1 .. n of a Profile table
RECURSIVE BalanceUpTo(_, _)
BalanceUpTo(n, table) == IF n = 0 THEN 0 ELSE table[n].balance + BalanceUpTo(n - 1, table)

TotalBalance(table) == BalanceUpTo(Cardinality(ProfileIds), table)

\* every request accepted so far is a payJob that is still in its slot
OnlyPayments == started = Cardinality({p \in Req : req[p].op = "pay"})

\* what the payments of the slots in P owe to profile k
RECURSIVE CreditsTo(_, _)
CreditsTo(k, P) ==
    IF P = {} THEN 0
    ELSE LET p == CHOOSE x \in P : TRUE IN
         (IF Party(req[p].job_id).ContractorId = k THEN jobs[req[p].job_id].price ELSE 0)
            + CreditsTo(k, P \ {p})

\* C14: while only payJobs have run, the sum of all balances is the initial
\* one; and when two payJobs of one client for two different jobs have both
\* succeeded, the client holds its initial balance minus both prices and
\* each contractor its initial balance plus the prices of its jobs.
C14_NoLostUpdate ==
    /\ OnlyPayments => TotalBalance(profiles) = TotalBalance(SeedProfiles)
    /\ \A p, q \in Req :
        (/\ OnlyPayments
         /\ p # q
         /\ res[p].status = 200 /\ res[q].status = 200
         /\ req[p].profile_id = req[q].profile_id
         /\ req[p].job_id # req[q].job_id) =>
            /\ profiles[req[p].profile_id].balance =
                    SeedProfiles[req[p].profile_id].balance
                        - jobs[req[p].job_id].price - jobs[req[q].job_id].price
            /\ \A k \in ProfileIds :
                    profiles[k].type = "contractor" =>
                        profiles[k].balance = SeedProfiles[k].balance + CreditsTo(k, {p, q})

\* C15: of the payJobs that target one job at most one commits, and while
\* only payJobs of that one job have run, its client has been debited the
\* price at most once and its contractor credited it at most once.
C15_PaidAtMostOnce ==
    \A p, q \in Req :
        (p # q /\ req[p].op = "pay" /\ req[q].op = "pay"
            /\ req[p].job_id = req[q].job_id /\ req[p].job_id \in JobIds) =>
            LET j == req[p].job_id IN
            /\ ~(writes[p] = 1 /\ writes[q] = 1)
            /\ OnlyPayments =>
                /\ profiles[Party(j).ClientId].balance
                        >= SeedProfiles[Party(j).ClientId].balance - jobs[j].price
                /\ profiles[Party(j).ContractorId].balance
                        <= SeedProfiles[Party(j).ContractorId].balance + jobs[j].price

\* C16: a step of a payJob either commits, and then the debit and the credit
\* it computed are stored and the job is marked paid with a payment date, all
\* in that one step, or it leaves every balance and every job as it was.
C16_PaymentAtomic ==
    [][\A p \in Req : (Moves(p) /\ req'[p].op = "pay") =>
        IF PayCommits(p)
        THEN LET j == req[p].job_id IN
             /\ profiles'[Party(j).ClientId].balance
                    = loc[p].client.balance - jobs[j].price
             /\ profiles'[Party(j).ContractorId].balance
                    = loc[p].contractor.balance + jobs[j].price
             /\ jobs'[j].paid /\ jobs'[j].paymentDate # <<>>
        ELSE profiles' = profiles /\ jobs' = jobs]_vars

\* a payment has committed while another request is about to read the jobs
C16_Witness ==
    \E p, q \in Req :
        /\ req[p].op = "pay" /\ writes[p] = 1
        /\ pc[q] = "uj_findAll"

TransactionFailed(p) ==
    /\ res[p].status = 400
    /\ \/ req[p].op = "pay"
       \/ req[p].op = "deposit" /\ req[p].amount.kind = "number"

\* C17: a payJob or deposit whose transaction fails is answered 400 with no
\* body, the failing step leaves the ledger as it was, the request has
\* committed nothing, and a request answered 200 has committed; when the
\* failed request is the only one so far, the ledger is the initial one.
C17_Rollback ==
    /\ [](\A p \in Req : req[p].op \in {"pay", "deposit"} =>
            /\ TransactionFailed(p) => writes[p] = 0
            /\ res[p].status = 200 => writes[p] = 1
            /\ (TransactionFailed(p) /\ started = 1) =>
                    (profiles = SeedProfiles /\ jobs = SeedJobs))
    /\ [][\A p \in Req :
            (Moves(p) /\ pc[p] \in {"pay_tx", "dep_tx"}
                /\ ~PayCommits(p) /\ ~DepositCommits(p)) =>
                    (res'[p] = Status(400) /\ ledger' = ledger)]_vars

\* a payment and a deposit were both rolled back
C17_Witness ==
    \E p, q \in Req :
        /\ req[p].op = "pay" /\ TransactionFailed(p)
        /\ req[q].op = "deposit" /\ TransactionFailed(q)

PreconditionFailed(p) ==
    \/ req[p].op = "pay" /\ res[p].status \in {401, 402, 404}
    \/ req[p].op = "deposit" /\ res[p].status \in {403, 404}
    \/ req[p].op = "deposit" /\ res[p].status = 400 /\ req[p].amount.kind # "number"

\* C18: the answer to a failed transaction differs from every answer the
\* same operation gives to a failed precondition.
C18_Distinguishable ==
    \A p, q \in Req :
        (req[p].op = req[q].op /\ TransactionFailed(p) /\ PreconditionFailed(q))
            => res[p] # res[q]

\* C19: a paid job never changes again.
C19_PaidTerminal ==
    [][\A j \in JobIds : jobs[j].paid => jobs'[j] = jobs[j]]_vars

\* C20: a committing payJob changes the balance of the job's client and of
\* its contractor and the paid flag and payment date of the job, a
\* committing deposit changes the balance of its target, and neither changes
\* anything else of the ledger.
C20_Frame ==
    [][\A p \in Req :
        /\ PayCommits(p) =>
            LET j == req[p].job_id IN
            /\ contracts' = contracts
            /\ \A i \in ProfileIds :
                    IF i \in {Party(j).ClientId, Party(j).ContractorId}
                    THEN profiles'[i] = [profiles[i] EXCEPT !.balance = profiles'[i].balance]
                    ELSE profiles'[i] = profiles[i]
            /\ \A k \in JobIds :
                    IF k = j
                    THEN jobs'[k] = [jobs[k] EXCEPT !.paid = jobs'[k].paid,
                                                    !.paymentDate = jobs'[k].paymentDate]
                    ELSE jobs'[k] = jobs[k]
        /\ DepositCommits(p) =>
            /\ contracts' = contracts /\ jobs' = jobs
            /\ \A i \in ProfileIds :
                    IF i = req[p].userId
                    THEN profiles'[i] = [profiles[i] EXCEPT !.balance = profiles'[i].balance]
                    ELSE profiles'[i] = profiles[i]]_vars

\* a payment and a deposit have both committed
C20_Witness ==
    \E p, q \in Req :
        /\ req[p].op = "pay" /\ writes[p] = 1
        /\ req[q].op = "deposit" /\ writes[q] = 1

====
